---- MODULE Spec2Model ----
(***************************************************************************)
(* State machine of the FloorPlanGenerator editor (src/uinegative.jsx):    *)
(* the React state of the component, one action per event handler, and the *)
(* mocked back-end functions as operators.                                 *)
(*                                                                         *)
(* Strings are JavaScript strings; "" is the only falsy one.  The text of  *)
(* a number field is a sequence of one-character strings, converted by     *)
(* ParseInt as JavaScript's parseInt converts it.  null is modelled as the *)
(* empty sequence <<>> and a stored statistics object s as <<s>>.          *)
(* calls is the console trace of the mock functions: the invocations made  *)
(* by the most recent generateFloorPlan call, in order.                    *)
(***************************************************************************)
EXTENDS Integers, Sequences, FiniteSets, TLC

VARIABLES regions, rooms, adjacencies, settings, results, activeTab,
          newRegion, newRoom, newAdjacency, calls, budget

vars == <<regions, rooms, adjacencies, settings, results, activeTab,
          newRegion, newRoom, newAdjacency, calls, budget>>

\* What generateFloorPlan reads.
inputs == <<regions, rooms, adjacencies, settings>>

(***************************************************************************)
(* Bounds and input alphabets                                              *)
(***************************************************************************)
\* Number of user interactions explored from the initial state; budget
\* counts the ones left.
MaxOps == 4

\* Texts a user types or pastes into a number field.
NumberTexts == { <<>>, <<"0">>, <<"-", "2">>, <<"3">> }

\* Texts a user types or pastes into a room-name field.
NameTexts == { "", "Kitchen", "Study" }

Tabs == { "floorPlan", "rooms", "adjacency", "settings", "results" }

(***************************************************************************)
(* JavaScript helpers                                                      *)
(***************************************************************************)
NaN == [isNaN |-> TRUE, value |-> 0]

IsDigit(c) == c \in { "0", "1", "2", "3", "4", "5", "6", "7", "8", "9" }

DigitValue(c) ==
    CASE c = "0" -> 0 [] c = "1" -> 1 [] c = "2" -> 2 [] c = "3" -> 3
      [] c = "4" -> 4 [] c = "5" -> 5 [] c = "6" -> 6 [] c = "7" -> 7
      [] c = "8" -> 8 [] c = "9" -> 9

RECURSIVE ParseDigits(_, _, _)
ParseDigits(s, i, acc) ==
    IF i > Len(s) \/ ~IsDigit(s[i])
    THEN acc
    ELSE ParseDigits(s, i + 1, acc * 10 + DigitValue(s[i]))

\* parseInt(text): optional sign, then the longest run of digits; NaN when
\* there is no digit.
ParseInt(s) ==
    LET signed == Len(s) > 0 /\ s[1] \in { "-", "+" }
        start  == IF signed THEN 2 ELSE 1
        sign   == IF signed /\ s[1] = "-" THEN -1 ELSE 1
    IN  IF start > Len(s) \/ ~IsDigit(s[start])
        THEN NaN
        ELSE [isNaN |-> FALSE, value |-> sign * ParseDigits(s, start, 0)]

\* parseInt(text) || d : NaN and 0 are falsy.
ParseIntOr(s, d) ==
    LET p == ParseInt(s)
    IN  IF p.isNaN \/ p.value = 0 THEN d ELSE p.value

\* Truthiness of a string.
Truthy(str) == str # ""

\* array.splice(index, 1) on a copy.
Splice(seq, index) ==
    [i \in 1..(Len(seq) - 1) |-> IF i < index THEN seq[i] ELSE seq[i + 1]]

RoomNames == { rooms[i].name : i \in 1..Len(rooms) }

(***************************************************************************)
(* mockPythonFunctions                                                     *)
(***************************************************************************)
createFloorPlan(rs) == [success |-> TRUE]

mockAddRoom(name, width, height, maxExpansion) == [success |-> TRUE]

mockAddAdjacency(room1, room2) == [success |-> TRUE]

placeRooms(maxAttempts, enableExpansion) ==
    [success |-> TRUE,
     statistics |->
        [floorArea |-> 300,
         roomArea |-> 240,
         spaceUtilization |-> [num |-> 8, den |-> 10],
         adjacencyScore |-> 5,
         totalAdjacencies |-> 7,
         adjacentPairs |-> << <<"Living Room", "Kitchen">>,
                              <<"Kitchen", "Dining">>,
                              <<"Bedroom", "Bathroom">>,
                              <<"Living Room", "Bedroom">>,
                              <<"Bathroom", "Kitchen">> >>]]

(***************************************************************************)
(* Initial state: the useState initialisers                                *)
(***************************************************************************)
InitRegions ==
    << [x |-> 0, y |-> 0, width |-> 5, height |-> 15],
       [x |-> 5, y |-> 0, width |-> 10, height |-> 5],
       [x |-> 15, y |-> 0, width |-> 5, height |-> 15] >>

InitRooms ==
    << [name |-> "Living Room", width |-> 6, height |-> 4, maxExpansion |-> 10],
       [name |-> "Kitchen", width |-> 5, height |-> 4, maxExpansion |-> 8],
       [name |-> "Dining", width |-> 4, height |-> 4, maxExpansion |-> 6],
       [name |-> "Bedroom", width |-> 5, height |-> 5, maxExpansion |-> 5],
       [name |-> "Bathroom", width |-> 3, height |-> 3, maxExpansion |-> 2] >>

InitAdjacencies ==
    << [room1 |-> "Living Room", room2 |-> "Kitchen"],
       [room1 |-> "Kitchen", room2 |-> "Dining"],
       [room1 |-> "Living Room", room2 |-> "Bedroom"],
       [room1 |-> "Bedroom", room2 |-> "Bathroom"],
       [room1 |-> "Bathroom", room2 |-> "Kitchen"] >>

InitSettings == [maxAttempts |-> 5000, enableExpansion |-> TRUE]

BlankRegion == [x |-> 0, y |-> 0, width |-> 5, height |-> 5]

BlankRoom == [name |-> "", width |-> 4, height |-> 4, maxExpansion |-> 5]

BlankAdjacency == [room1 |-> "", room2 |-> ""]

Init ==
    /\ regions = InitRegions
    /\ rooms = InitRooms
    /\ adjacencies = InitAdjacencies
    /\ settings = InitSettings
    /\ results = <<>>
    /\ activeTab = "floorPlan"
    /\ newRegion = BlankRegion
    /\ newRoom = BlankRoom
    /\ newAdjacency = BlankAdjacency
    /\ calls = <<>>
    /\ budget = MaxOps

\* The same program state, explored one interaction less deep.
InitShort ==
    /\ regions = InitRegions
    /\ rooms = InitRooms
    /\ adjacencies = InitAdjacencies
    /\ settings = InitSettings
    /\ results = <<>>
    /\ activeTab = "floorPlan"
    /\ newRegion = BlankRegion
    /\ newRoom = BlankRoom
    /\ newAdjacency = BlankAdjacency
    /\ calls = <<>>
    /\ budget = MaxOps - 1

\* One user interaction, taken from the interactions left to explore.
Interact == budget > 0 /\ budget' = budget - 1

(***************************************************************************)
(* FloorPlanSection                                                        *)
(***************************************************************************)
\* The fallback of "parseInt(e.target.value) || d" for each number field.
NumberDefault(f) == IF f \in { "x", "y", "maxExpansion" } THEN 0 ELSE 1

RegionFields == { "x", "y", "width", "height" }

addRegion ==
    /\ activeTab = "floorPlan"
    /\ Interact
    /\ IF newRegion.width > 0 /\ newRegion.height > 0
       THEN /\ regions' = Append(regions, newRegion)
            /\ newRegion' = BlankRegion
       ELSE UNCHANGED <<regions, newRegion>>
    /\ UNCHANGED <<rooms, adjacencies, settings, results, activeTab,
                   newRoom, newAdjacency, calls>>

removeRegion(index) ==
    /\ activeTab = "floorPlan"
    /\ index \in 1..Len(regions)
    /\ Interact
    /\ regions' = Splice(regions, index)
    /\ UNCHANGED <<rooms, adjacencies, settings, results, activeTab,
                   newRegion, newRoom, newAdjacency, calls>>

\* onChange of the x / y / width / height field of an existing region row.
RegionFieldChange(index, f, text) ==
    /\ activeTab = "floorPlan"
    /\ index \in 1..Len(regions)
    /\ Interact
    /\ regions' = [regions EXCEPT ![index][f] = ParseIntOr(text, NumberDefault(f))]
    /\ UNCHANGED <<rooms, adjacencies, settings, results, activeTab,
                   newRegion, newRoom, newAdjacency, calls>>

\* onChange of a field of the "new region" row.
NewRegionFieldChange(f, text) ==
    /\ activeTab = "floorPlan"
    /\ Interact
    /\ newRegion' = [newRegion EXCEPT ![f] = ParseIntOr(text, NumberDefault(f))]
    /\ UNCHANGED <<regions, rooms, adjacencies, settings, results, activeTab,
                   newRoom, newAdjacency, calls>>

(***************************************************************************)
(* RoomsSection                                                            *)
(***************************************************************************)
RoomNumberFields == { "width", "height", "maxExpansion" }

addRoom ==
    /\ activeTab = "rooms"
    /\ Interact
    /\ IF Truthy(newRoom.name) /\ newRoom.width > 0 /\ newRoom.height > 0
       THEN /\ rooms' = Append(rooms, newRoom)
            /\ newRoom' = BlankRoom
       ELSE UNCHANGED <<rooms, newRoom>>
    /\ UNCHANGED <<regions, adjacencies, settings, results, activeTab,
                   newRegion, newAdjacency, calls>>

\* A filter that tests room1 only: adjacencies naming the removed room as
\* room2 survive.
RECURSIVE RemoveRoomAdjacenciesRoom1Only(_, _)
RemoveRoomAdjacenciesRoom1Only(adjs, roomName) ==
    IF adjs = <<>> THEN <<>>
    ELSE IF Head(adjs).room1 # roomName
         THEN <<Head(adjs)>> \o RemoveRoomAdjacenciesRoom1Only(Tail(adjs), roomName)
         ELSE RemoveRoomAdjacenciesRoom1Only(Tail(adjs), roomName)

\* adjacencies.filter(adj => adj.room1 !== roomName && adj.room2 !== roomName)
RECURSIVE RemoveRoomAdjacencies(_, _)
RemoveRoomAdjacencies(adjs, roomName) ==
    IF adjs = <<>> THEN <<>>
    ELSE IF Head(adjs).room1 # roomName /\ Head(adjs).room2 # roomName
         THEN <<Head(adjs)>> \o RemoveRoomAdjacencies(Tail(adjs), roomName)
         ELSE RemoveRoomAdjacencies(Tail(adjs), roomName)

removeRoom(index) ==
    /\ activeTab = "rooms"
    /\ index \in 1..Len(rooms)
    /\ Interact
    /\ LET roomName == rooms[index].name
       IN  /\ rooms' = Splice(rooms, index)
           /\ adjacencies' = RemoveRoomAdjacencies(adjacencies, roomName)
    /\ UNCHANGED <<regions, settings, results, activeTab,
                   newRegion, newRoom, newAdjacency, calls>>

\* The adjacency list after a rename: the first matching branch wins.
RenameAdjacencies(adjs, oldName, newName) ==
    [i \in 1..Len(adjs) |->
        IF adjs[i].room1 = oldName THEN [adjs[i] EXCEPT !.room1 = newName]
        ELSE IF adjs[i].room2 = oldName THEN [adjs[i] EXCEPT !.room2 = newName]
        ELSE adjs[i]]

\* onChange of the name field of an existing room row.
RoomNameChange(index, newName) ==
    /\ activeTab = "rooms"
    /\ index \in 1..Len(rooms)
    /\ newName # rooms[index].name
    /\ Interact
    /\ LET oldName == rooms[index].name
       IN  /\ rooms' = [rooms EXCEPT ![index].name = newName]
           /\ adjacencies' = IF Truthy(oldName)
                             THEN RenameAdjacencies(adjacencies, oldName, newName)
                             ELSE adjacencies
    /\ UNCHANGED <<regions, settings, results, activeTab,
                   newRegion, newRoom, newAdjacency, calls>>

\* onChange of the width / height / maxExpansion field of an existing room row.
RoomFieldChange(index, f, text) ==
    /\ activeTab = "rooms"
    /\ index \in 1..Len(rooms)
    /\ Interact
    /\ rooms' = [rooms EXCEPT ![index][f] = ParseIntOr(text, NumberDefault(f))]
    /\ UNCHANGED <<regions, adjacencies, settings, results, activeTab,
                   newRegion, newRoom, newAdjacency, calls>>

NewRoomNameChange(name) ==
    /\ activeTab = "rooms"
    /\ name # newRoom.name
    /\ Interact
    /\ newRoom' = [newRoom EXCEPT !.name = name]
    /\ UNCHANGED <<regions, rooms, adjacencies, settings, results, activeTab,
                   newRegion, newAdjacency, calls>>

NewRoomFieldChange(f, text) ==
    /\ activeTab = "rooms"
    /\ Interact
    /\ newRoom' = [newRoom EXCEPT ![f] = ParseIntOr(text, NumberDefault(f))]
    /\ UNCHANGED <<regions, rooms, adjacencies, settings, results, activeTab,
                   newRegion, newAdjacency, calls>>

(***************************************************************************)
(* AdjacencySection                                                        *)
(***************************************************************************)
AdjacencyFields == { "room1", "room2" }

\* adjacencies.some(...): the pair exists in either order.
AdjacencyExists(adjs, new) ==
    \E i \in 1..Len(adjs) :
        \/ adjs[i].room1 = new.room1 /\ adjs[i].room2 = new.room2
        \/ adjs[i].room1 = new.room2 /\ adjs[i].room2 = new.room1

addAdjacency ==
    /\ activeTab = "adjacency"
    /\ Interact
    /\ IF /\ Truthy(newAdjacency.room1)
          /\ Truthy(newAdjacency.room2)
          /\ newAdjacency.room1 # newAdjacency.room2
          /\ ~AdjacencyExists(adjacencies, newAdjacency)
       THEN /\ adjacencies' = Append(adjacencies, newAdjacency)
            /\ newAdjacency' = BlankAdjacency
       ELSE UNCHANGED <<adjacencies, newAdjacency>>
    /\ UNCHANGED <<regions, rooms, settings, results, activeTab,
                   newRegion, newRoom, calls>>

removeAdjacency(index) ==
    /\ activeTab = "adjacency"
    /\ index \in 1..Len(adjacencies)
    /\ Interact
    /\ adjacencies' = Splice(adjacencies, index)
    /\ UNCHANGED <<regions, rooms, settings, results, activeTab,
                   newRegion, newRoom, newAdjacency, calls>>

\* onChange of the room1 / room2 select of an existing adjacency row; the
\* options are the current room names.
AdjacencySelectChange(index, f, value) ==
    /\ activeTab = "adjacency"
    /\ index \in 1..Len(adjacencies)
    /\ value \in RoomNames
    /\ value # adjacencies[index][f]
    /\ Interact
    /\ adjacencies' = [adjacencies EXCEPT ![index][f] = value]
    /\ UNCHANGED <<regions, rooms, settings, results, activeTab,
                   newRegion, newRoom, newAdjacency, calls>>

\* onChange of a select of the "new adjacency" row; the options are "" and
\* the current room names.
NewAdjacencySelectChange(f, value) ==
    /\ activeTab = "adjacency"
    /\ value \in { "" } \cup RoomNames
    /\ value # newAdjacency[f]
    /\ Interact
    /\ newAdjacency' = [newAdjacency EXCEPT ![f] = value]
    /\ UNCHANGED <<regions, rooms, adjacencies, settings, results, activeTab,
                   newRegion, newRoom, calls>>

(***************************************************************************)
(* SettingsSection                                                         *)
(***************************************************************************)
MaxAttemptsChange(text) ==
    /\ activeTab = "settings"
    /\ Interact
    /\ settings' = [settings EXCEPT !.maxAttempts = ParseIntOr(text, 1000)]
    /\ UNCHANGED <<regions, rooms, adjacencies, results, activeTab,
                   newRegion, newRoom, newAdjacency, calls>>

\* The checkbox reports its new checked state.
EnableExpansionChange ==
    /\ activeTab = "settings"
    /\ Interact
    /\ settings' = [settings EXCEPT !.enableExpansion = ~settings.enableExpansion]
    /\ UNCHANGED <<regions, rooms, adjacencies, results, activeTab,
                   newRegion, newRoom, newAdjacency, calls>>

(***************************************************************************)
(* Navigation and generation                                               *)
(***************************************************************************)
setActiveTab(tab) ==
    /\ tab # activeTab
    /\ Interact
    /\ activeTab' = tab
    /\ UNCHANGED <<regions, rooms, adjacencies, settings, results,
                   newRegion, newRoom, newAdjacency, calls>>

\* The mock invocations one generateFloorPlan call makes, in order.
GenerateCalls(rgs, rms, adjs, st) ==
    << [fn |-> "createFloorPlan", args |-> <<rgs>>] >>
    \o [i \in 1..Len(rms) |->
          [fn |-> "addRoom",
           args |-> <<rms[i].name, rms[i].width, rms[i].height, rms[i].maxExpansion>>]]
    \o [i \in 1..Len(adjs) |->
          [fn |-> "addAdjacency", args |-> <<adjs[i].room1, adjs[i].room2>>]]
    \o << [fn |-> "placeRooms", args |-> <<st.maxAttempts, st.enableExpansion>>] >>

\* A generateFloorPlan that merges the new statistics into the ones kept
\* (the satisfied pairs accumulate) instead of overwriting them.
generateFloorPlanMerging ==
    /\ Interact
    /\ calls' = GenerateCalls(regions, rooms, adjacencies, settings)
    /\ LET result == placeRooms(settings.maxAttempts, settings.enableExpansion)
       IN  IF result.success
           THEN results' =
                  IF results = <<>>
                  THEN <<result.statistics>>
                  ELSE <<[result.statistics EXCEPT
                            !.adjacentPairs = results[1].adjacentPairs \o @]>>
           ELSE UNCHANGED results
    /\ UNCHANGED <<regions, rooms, adjacencies, settings, activeTab,
                   newRegion, newRoom, newAdjacency>>

\* The "Generate Floor Plan" button of the header (always rendered).
generateFloorPlan ==
    /\ Interact
    /\ calls' = GenerateCalls(regions, rooms, adjacencies, settings)
    /\ LET result == placeRooms(settings.maxAttempts, settings.enableExpansion)
       IN  IF result.success
           THEN results' = <<result.statistics>>
           ELSE UNCHANGED results
    /\ UNCHANGED <<regions, rooms, adjacencies, settings, activeTab,
                   newRegion, newRoom, newAdjacency>>

Next ==
    \/ addRegion
    \/ \E index \in 1..Len(regions) : removeRegion(index)
    \/ \E index \in 1..Len(regions), f \in RegionFields, text \in NumberTexts :
          RegionFieldChange(index, f, text)
    \/ \E f \in RegionFields, text \in NumberTexts : NewRegionFieldChange(f, text)
    \/ addRoom
    \/ \E index \in 1..Len(rooms) : removeRoom(index)
    \/ \E index \in 1..Len(rooms), newName \in NameTexts : RoomNameChange(index, newName)
    \/ \E index \in 1..Len(rooms), f \in RoomNumberFields, text \in NumberTexts :
          RoomFieldChange(index, f, text)
    \/ \E name \in NameTexts : NewRoomNameChange(name)
    \/ \E f \in RoomNumberFields, text \in NumberTexts : NewRoomFieldChange(f, text)
    \/ addAdjacency
    \/ \E index \in 1..Len(adjacencies) : removeAdjacency(index)
    \/ \E index \in 1..Len(adjacencies), f \in AdjacencyFields, value \in RoomNames :
          AdjacencySelectChange(index, f, value)
    \/ \E f \in AdjacencyFields, value \in { "" } \cup RoomNames :
          NewAdjacencySelectChange(f, value)
    \/ \E text \in NumberTexts : MaxAttemptsChange(text)
    \/ EnableExpansionChange
    \/ \E tab \in Tabs : setActiveTab(tab)
    \/ generateFloorPlan

Spec == Init /\ [][Next]_vars

SpecShort == InitShort /\ [][Next]_vars

(***************************************************************************)
(* Properties                                                              *)
(***************************************************************************)
\* The adjacency list handed to the back end by the most recent
\* generateFloorPlan call.
CalledAdjacencies ==
    LET isAdj(c) == c.fn = "addAdjacency"
        sel == SelectSeq(calls, isAdj)
    IN  [i \in 1..Len(sel) |-> sel[i].args]

PlaceRoomsInvoked(trace) == \E i \in 1..Len(trace) : trace[i].fn = "placeRooms"

\* s is a subsequence of t: the elements of s occur in t in the same order.
RECURSIVE IsSubsequence(_, _)
IsSubsequence(s, t) ==
    IF s = <<>> THEN TRUE
    ELSE IF t = <<>> THEN FALSE
    ELSE IF Head(s) = Head(t)
         THEN IsSubsequence(Tail(s), Tail(t))
         ELSE IsSubsequence(s, Tail(t))

\* C1: every adjacency in the adjacency list has room1 and room2 both equal
\* to the name of some room currently in the room list.
C1_ReferentialIntegrity ==
    \A i \in 1..Len(adjacencies) :
        adjacencies[i].room1 \in RoomNames /\ adjacencies[i].room2 \in RoomNames

\* C2: no adjacency in the adjacency list has room1 equal to room2.
C2_DistinctEndpoints ==
    \A i \in 1..Len(adjacencies) : adjacencies[i].room1 # adjacencies[i].room2

\* C3: no room in the room list has an empty name and no two rooms in the
\* room list have the same name.
C3_UniqueNonEmptyNames ==
    /\ \A i \in 1..Len(rooms) : rooms[i].name # ""
    /\ \A i, j \in 1..Len(rooms) : i # j => rooms[i].name # rooms[j].name

\* C4: a generateFloorPlan call made while some adjacency references a room
\* name absent from the room list performs zero search attempts: placeRooms
\* is not invoked and results is not set to success statistics.
C4_DanglingAdjacencyRejected ==
    [][(generateFloorPlan /\ ~C1_ReferentialIntegrity)
          => (~PlaceRoomsInvoked(calls') /\ results' = results)]_vars

\* C5: a generateFloorPlan call made with settings.maxAttempts <= 0 is
\* rejected before any work begins: no mock function is invoked and results
\* is left unchanged.
C5_NonPositiveAttemptsRejected ==
    [][(generateFloorPlan /\ settings.maxAttempts <= 0)
          => (calls' = <<>> /\ results' = results)]_vars

\* C6: the stored result's totalAdjacencies equals the number of adjacency
\* requirements at the time of the call, and
\* 0 <= adjacencyScore <= totalAdjacencies.
C6_TotalAdjacenciesIsCount ==
    results # <<>> =>
        /\ results[1].totalAdjacencies = Len(CalledAdjacencies)
        /\ 0 <= results[1].adjacencyScore
        /\ results[1].adjacencyScore <= results[1].totalAdjacencies

\* C7: the stored result's adjacentPairs is a subsequence of the adjacency
\* list at the time of the call (same pairs, same relative order), and
\* adjacencyScore equals the length of adjacentPairs.
C7_AdjacentPairsSubsequence ==
    results # <<>> =>
        /\ IsSubsequence(results[1].adjacentPairs, CalledAdjacencies)
        /\ results[1].adjacencyScore = Len(results[1].adjacentPairs)

\* C8: every region and every room in state has width > 0 and height > 0.
C8_PositiveDimensions ==
    /\ \A i \in 1..Len(regions) : regions[i].width > 0 /\ regions[i].height > 0
    /\ \A i \in 1..Len(rooms) : rooms[i].width > 0 /\ rooms[i].height > 0

\* C9: a generateFloorPlan step replaces results with exactly the statistics
\* its placeRooms call returns, whatever results held before, and leaves
\* regions, rooms, adjacencies and settings unchanged; a step that changes
\* results is a generateFloorPlan step.
C9_GenerateEffectAndFrame ==
    [][/\ generateFloorPlan =>
            /\ results' = <<placeRooms(settings.maxAttempts,
                                       settings.enableExpansion).statistics>>
            /\ UNCHANGED inputs
       /\ results' # results => generateFloorPlan]_vars

\* C9 witness: generateFloorPlan has run on an edited region list and its
\* statistics are the stored results.
C9_GeneratedAfterEdit ==
    /\ results = <<placeRooms(settings.maxAttempts,
                              settings.enableExpansion).statistics>>
    /\ calls = GenerateCalls(regions, rooms, adjacencies, settings)
    /\ regions # InitRegions

\* C10: addAdjacency leaves the adjacency list unchanged when the new pair
\* already exists in either order, and the adjacency list never holds two
\* entries with the same unordered pair {room1, room2}.
C10_NoDuplicatePairs ==
    [][/\ (addAdjacency /\ AdjacencyExists(adjacencies, newAdjacency))
             => adjacencies' = adjacencies
       /\ \A i, j \in 1..Len(adjacencies') :
             i # j => { adjacencies'[i].room1, adjacencies'[i].room2 }
                        # { adjacencies'[j].room1, adjacencies'[j].room2 }]_vars

\* The positions of adjs whose entry mentions neither endpoint name.
KeptPositions(adjs, name) ==
    { i \in 1..Len(adjs) : adjs[i].room1 # name /\ adjs[i].room2 # name }

\* after is before with exactly the entries at the positions in kept, in
\* their original order.
IsRestriction(after, before, kept) ==
    /\ Len(after) = Cardinality(kept)
    /\ \A i \in kept :
          after[Cardinality({ j \in kept : j <= i })] = before[i]

NamesUnique ==
    \A i, j \in 1..Len(rooms) : i # j => rooms[i].name # rooms[j].name

\* C11: removeRoom(index) removes only the room at index (the others keep
\* their order), removes exactly the adjacencies whose room1 or room2 is the
\* removed room's name (the others keep their order), and leaves regions,
\* settings and results unchanged; when room names are unique, no remaining
\* adjacency references the removed room and no adjacency between two
\* remaining rooms is deleted.
C11_RemoveRoomCascadesExactly ==
    [][\A index \in 1..Len(rooms) :
          removeRoom(index) =>
            LET name == rooms[index].name
                kept == KeptPositions(adjacencies, name)
            IN  /\ Len(rooms') = Len(rooms) - 1
                /\ \A i \in 1..Len(rooms') :
                      rooms'[i] = IF i < index THEN rooms[i] ELSE rooms[i + 1]
                /\ IsRestriction(adjacencies', adjacencies, kept)
                /\ UNCHANGED <<regions, settings, results>>
                /\ NamesUnique =>
                      /\ \A i \in 1..Len(adjacencies') :
                            /\ adjacencies'[i].room1 # name
                            /\ adjacencies'[i].room2 # name
                      /\ \A i \in 1..Len(adjacencies) :
                            (/\ adjacencies[i].room1 \in RoomNames'
                             /\ adjacencies[i].room2 \in RoomNames')
                               => i \in kept]_vars

\* C11 witness: "Kitchen" was removed from the initial room list; its three
\* adjacencies went with it and the two others remain, in order.
C11_KitchenRemoved ==
    /\ rooms = Splice(InitRooms, 2)
    /\ adjacencies = << [room1 |-> "Living Room", room2 |-> "Bedroom"],
                        [room1 |-> "Bedroom", room2 |-> "Bathroom"] >>

\* C12: after the name of the room at index is edited from oldName to
\* newName, every occurrence of oldName as room1 or room2 of any adjacency
\* (both endpoints of one adjacency included, oldName = "" included) is
\* replaced by newName, and the other endpoints are unchanged.
C12_RenamePropagates ==
    [][\A index \in 1..Len(rooms), newName \in NameTexts :
          RoomNameChange(index, newName) =>
            LET oldName == rooms[index].name
                renamed(n) == IF n = oldName THEN newName ELSE n
            IN  /\ Len(adjacencies') = Len(adjacencies)
                /\ \A i \in 1..Len(adjacencies) :
                      /\ adjacencies'[i].room1 = renamed(adjacencies[i].room1)
                      /\ adjacencies'[i].room2 = renamed(adjacencies[i].room2)]_vars

====
